---- MODULE Spec2Model ----
(***************************************************************************)
(* Ticket lifecycle of xmaintnote (src/xmaintnote/ticketing.py): a         *)
(* JiraTicket controller derives a key from a maintenance event and drives *)
(* a JIRA backend through exists(), create() and close().                  *)
(*                                                                         *)
(* Every backend request of a call is one step of the model, so that calls *)
(* of different controllers can be run one after another (Spec) or         *)
(* interleaved (SpecConc).  SpecEnv adds a JIRA user who removes labels,   *)
(* SpecLabel one who adds them.                                            *)
(***************************************************************************)
EXTENDS Naturals, Sequences, FiniteSets, TLC

\* ------------------------------------------------------------------ bounds
\* Number of controllers (JiraTicket instances) driving the same backend.
NumCtl == 2
\* Capacity of the modelled backend: no issue is created beyond it.
MaxIssues == 2
\* Number of calls made by the concurrent callers of SpecConc.
MaxCalls == 2

Ctl == 1..NumCtl

\* self.ticket = None
NoTicket == 0

VARIABLES
    event,               \* self.event, per controller
    key,                 \* self.key
    ticket,              \* self.ticket: NoTicket or the id of an issue
    watchers,            \* self.watchers
    pri_mapping,         \* self.pri_mapping
    finished_transition, \* self.finished_transition
    issues,              \* the backend: issue id -> fields (ids are 1..Len)
    workflow,            \* the backend: status -> transitions offered
    call,                \* per controller: the call in progress
    ncalls               \* the calls started by the concurrent callers

config == <<event, key, watchers, pri_mapping, finished_transition, workflow>>
vars == <<event, key, ticket, watchers, pri_mapping, finished_transition,
          issues, workflow, call, ncalls>>

\* ------------------------------------------------------------------ events
\* vXMaintNoteImpact.impact_types
impact_types == {"NO-IMPACT", "REDUCED-REDUNDANCY", "DEGRADED", "OUTAGE"}

\* Maintenance events handed to the controllers.  The first two share the
\* (provider, account, maintenance id) triple; the third and the fourth
\* hold a ':' inside a field; the last carries an unrecognised impact.
Events == {
    [provider |-> "example.com", account |-> "137.035999173",
     maintenance_id |-> "WorkOrder-31415", object_id |-> "obj-1",
     impact |-> "NO-IMPACT", dtstart |-> "2016-01-01", dtend |-> "2016-01-02"],
    [provider |-> "example.com", account |-> "137.035999173",
     maintenance_id |-> "WorkOrder-31415", object_id |-> "obj-2",
     impact |-> "OUTAGE", dtstart |-> "2016-06-01", dtend |-> "2016-06-03"],
    [provider |-> "a:b", account |-> "c",
     maintenance_id |-> "m", object_id |-> "obj-1",
     impact |-> "DEGRADED", dtstart |-> "2016-01-01", dtend |-> "2016-01-02"],
    [provider |-> "a", account |-> "b:c",
     maintenance_id |-> "m", object_id |-> "obj-1",
     impact |-> "REDUCED-REDUNDANCY", dtstart |-> "2016-01-01",
     dtend |-> "2016-01-02"],
    [provider |-> "example.com", account |-> "137.035999173",
     maintenance_id |-> "WorkOrder-27182", object_id |-> "obj-1",
     impact |-> "UNKNOWN-TYPE", dtstart |-> "2016-01-01",
     dtend |-> "2016-01-02"] }

\* vXMaintNoteImpact.__init__: a value outside impact_types is reported with
\* LOGGER.error ('should be treated as OUTAGE'); nothing is raised and the
\* value is kept as it is.
vXMaintNoteImpact(v) == v

\* The event as the calendar parser hands it over: its X-MAINTNOTE-IMPACT
\* property is a vXMaintNoteImpact.
XMaintNoteEvent(e) == [e EXCEPT !.impact = vXMaintNoteImpact(e.impact)]

\* Variant of Key: the object id is a fourth factor of the key.
KeyWithObjectId(e) ==
    e.provider \o ":" \o e.account \o ":" \o e.maintenance_id
        \o ":" \o e.object_id

\* Variant of Key: the factors are joined by a delimiter that occurs in none
\* of them.
KeyEscaped(e) == e.provider \o "|" \o e.account \o "|" \o e.maintenance_id

\* Ticket.__init__: '{}:{}:{}'.format(provider, account, maintenance_id)
Key(e) == e.provider \o ":" \o e.account \o ":" \o e.maintenance_id

\* ------------------------------------------------------------ configuration
\* Variant of DefaultPriMapping: the priorities of JIRA's older default
\* scheme.
DefaultPriMappingOld ==
    ("NO-IMPACT" :> "Trivial") @@ ("REDUCED-REDUNDANCY" :> "Minor") @@
    ("DEGRADED" :> "Major") @@ ("OUTAGE" :> "Blocker")

\* JiraTicket._post_init: the mapping used when pri_mapping is not given.
DefaultPriMapping ==
    ("NO-IMPACT" :> "Low") @@ ("REDUCED-REDUNDANCY" :> "Medium") @@
    ("DEGRADED" :> "High") @@ ("OUTAGE" :> "Highest")

\* The pri_mapping arguments tried: none, and a mapping of two impacts only.
PriMappingArgs == { <<>>, ("NO-IMPACT" :> "P4") @@ ("OUTAGE" :> "P1") }

\* The watchers arguments tried: none, and two users.
WatcherArgs == { <<>>, <<"noc", "ops">> }

\* The finished_transition arguments tried (the default is 'Done').
FinishedArgs == { "Done" }

\* JiraTicket._post_init: 'if not watchers: watchers = []'
PostInitWatchers(arg) == IF arg = <<>> THEN <<>> ELSE arg

\* JiraTicket._post_init: 'if not pri_mapping: pri_mapping = {...}'
PostInitPriMapping(arg) == IF DOMAIN arg = {} THEN DefaultPriMapping ELSE arg

\* Workflows of the backend: the transitions jira.transitions() offers for
\* an issue in each status, and the status each transition leads to.
Workflows == {
    [OPEN   |-> << [id |-> 1, name |-> "In Progress", to |-> "OPEN"] >>,
     CLOSED |-> << >>],
    [OPEN   |-> << [id |-> 1, name |-> "In Progress", to |-> "OPEN"],
                   [id |-> 2, name |-> "Done", to |-> "CLOSED"] >>,
     CLOSED |-> << [id |-> 3, name |-> "Reopen", to |-> "OPEN"] >>],
    [OPEN   |-> << [id |-> 2, name |-> "Done", to |-> "CLOSED"],
                   [id |-> 4, name |-> "Done", to |-> "CLOSED"] >>,
     CLOSED |-> << [id |-> 2, name |-> "Done", to |-> "CLOSED"] >>] }

\* ------------------------------------------------------------------- calls
\* A controller with no call in progress.
Idle == [pc |-> "idle", op |-> "none", ret |-> "-", reqs |-> <<>>,
         existing |-> <<>>, before |-> <<>>, w |-> 0, t |-> 0]

Init ==
    /\ event \in [Ctl -> { XMaintNoteEvent(e) : e \in Events }]
    /\ key = [c \in Ctl |-> Key(event[c])]
    /\ ticket = [c \in Ctl |-> NoTicket]
    /\ \E a \in WatcherArgs : watchers = [c \in Ctl |-> PostInitWatchers(a)]
    /\ \E a \in PriMappingArgs :
           pri_mapping = [c \in Ctl |-> PostInitPriMapping(a)]
    /\ \E a \in FinishedArgs : finished_transition = [c \in Ctl |-> a]
    /\ issues = <<>>
    /\ workflow \in Workflows
    /\ call = [c \in Ctl |-> Idle]
    /\ ncalls = 0

\* ----------------------------------------------------------------- backend
\* The ids of the issues labelled k in the backend state iss.
Labelled(iss, k) == { i \in 1..Len(iss) : k \in iss[i].labels }

\* The ids of the issues labelled k.
Matches(k) == Labelled(issues, k)

\* jira.search_issues('labels = <k>'): the matching issues, in an order of
\* the backend's choosing.
SearchIssues(k) ==
    LET m == Matches(k)
        n == Cardinality(m)
    IN  { s \in [1..n -> m] : \A i, j \in 1..n : i # j => s[i] # s[j] }

\* Variant of NewIssue: the issue is created without the label, which would
\* have to be set by a later request.
NewIssueUnlabelled(c) ==
    [labels   |-> {},
     status   |-> "OPEN",
     priority |-> pri_mapping[c][event[c].impact],
     watchers |-> <<>>]

\* jira.create_issue(fields=options) with the options create() builds.
NewIssue(c) ==
    [labels   |-> {key[c]},
     status   |-> "OPEN",
     priority |-> pri_mapping[c][event[c].impact],
     watchers |-> <<>>]

\* jira.transitions(tkt)
Transitions(i) == workflow[issues[i].status]

\* The backend knows the issue a request names.
IsIssue(i) == i \in 1..Len(issues)

\* Variant of TransitionIds: the name of the transition is not compared.
TransitionIdsAll(c, trs) == [n \in 1..Len(trs) |-> trs[n].id]

\* Variant of TransitionIds: the ids are collected from the end of the list,
\* so that the last transition of the name comes first.
TransitionIdsReversed(c, trs) ==
    LET RECURSIVE F(_)
        F(s) == IF s = <<>> THEN <<>>
                ELSE IF s[1].name = finished_transition[c]
                     THEN F(Tail(s)) \o <<s[1].id>>
                     ELSE F(Tail(s))
    IN  F(trs)

\* close(): [t['id'] for t in transitions if t['name'] == finished_transition]
TransitionIds(c, trs) ==
    LET RECURSIVE F(_)
        F(s) == IF s = <<>> THEN <<>>
                ELSE IF s[1].name = finished_transition[c]
                     THEN <<s[1].id>> \o F(Tail(s))
                     ELSE F(Tail(s))
    IN  F(trs)

\* ------------------------------------------------------------- controller
\* Variant of TicketAfterExists: the handle is cleared when nothing matches.
TicketAfterExistsCleared(c, res) == IF res # <<>> THEN res[1] ELSE NoTicket

\* Variant of TicketAfterExists: of several matches the one with the lowest
\* id is bound.
TicketAfterExistsLowest(c, res) ==
    IF res # <<>>
    THEN CHOOSE i \in { res[n] : n \in 1..Len(res) } :
             \A n \in 1..Len(res) : i <= res[n]
    ELSE ticket[c]

\* exists(): 'if existing: self.ticket = existing[0]'
TicketAfterExists(c, res) == IF res # <<>> THEN res[1] ELSE ticket[c]

\* Variants of ExistsResult: the result does not depend on the search
\* ('if self.exists:' tests the method, which is always true).
ExistsAlwaysTrue(res) == TRUE
ExistsAlwaysFalse(res) == FALSE

\* exists(): 'return True if existing else False'
ExistsResult(res) == res # <<>>

\* The call of controller c ends with outcome r after the requests log.
Finish(c, r, log) ==
    call' = [call EXCEPT ![c].pc = "done", ![c].ret = r, ![c].reqs = log]

\* A caller invokes exists(), create() or close() on controller c.
Call(c, o) ==
    /\ call[c].pc = "idle"
    /\ call' = [call EXCEPT ![c] = [Idle EXCEPT !.pc = "exists", !.op = o,
                                                 !.before = issues]]
    /\ UNCHANGED <<config, ticket, issues>>

\* Variant of Exists: a failed search is caught and taken for an empty
\* result.
ExistsSwallowsError(c) ==
    /\ call[c].pc = "exists"
    /\ LET log == Append(call[c].reqs, "search_issues") IN
       \E res \in SearchIssues(key[c]) \cup {<<>>} :
          /\ ticket' = [ticket EXCEPT ![c] = TicketAfterExists(c, res)]
          /\ LET found == ExistsResult(res)
                 next  == [call[c] EXCEPT !.reqs = log, !.existing = res]
             IN  call' = [call EXCEPT ![c] =
                   CASE call[c].op = "exists" ->
                          [next EXCEPT !.pc = "done",
                                       !.ret = IF found THEN "True" ELSE "False"]
                     [] call[c].op = "create" ->
                          IF found
                          THEN [next EXCEPT !.pc = "done", !.ret = "False"]
                          ELSE [next EXCEPT !.pc = "create_issue"]
                     [] call[c].op = "close" ->
                          IF found
                          THEN [next EXCEPT !.pc = "transitions"]
                          ELSE [next EXCEPT !.pc = "done", !.ret = "False"]]
    /\ UNCHANGED <<config, ncalls, issues>>

\* exists(), called directly or as the first statement of create()/close().
Exists(c) ==
    /\ call[c].pc = "exists"
    /\ LET log == Append(call[c].reqs, "search_issues") IN
       \/ /\ Finish(c, "JIRAError", log)
          /\ UNCHANGED ticket
       \/ \E res \in SearchIssues(key[c]) :
          /\ ticket' = [ticket EXCEPT ![c] = TicketAfterExists(c, res)]
          /\ LET found == ExistsResult(res)
                 next  == [call[c] EXCEPT !.reqs = log, !.existing = res]
             IN  call' = [call EXCEPT ![c] =
                   CASE call[c].op = "exists" ->
                          [next EXCEPT !.pc = "done",
                                       !.ret = IF found THEN "True" ELSE "False"]
                     [] call[c].op = "create" ->
                          IF found
                          THEN [next EXCEPT !.pc = "done", !.ret = "False"]
                          ELSE [next EXCEPT !.pc = "create_issue"]
                     [] call[c].op = "close" ->
                          IF found
                          THEN [next EXCEPT !.pc = "transitions"]
                          ELSE [next EXCEPT !.pc = "done", !.ret = "False"]]
    /\ UNCHANGED <<config, ncalls, issues>>

\* Variant of CreateIssue: the backend refuses a second issue with the label
\* and create() returns False.
CreateIssueExclusive(c) ==
    /\ call[c].pc = "create_issue"
    /\ IF event[c].impact \notin DOMAIN pri_mapping[c]
       THEN /\ Finish(c, "KeyError", call[c].reqs)
            /\ UNCHANGED <<ticket, issues>>
       ELSE LET log == Append(call[c].reqs, "create_issue") IN
            \/ /\ Finish(c, "JIRAError", log)
               /\ UNCHANGED <<ticket, issues>>
            \/ /\ Matches(key[c]) # {}
               /\ Finish(c, "False", log)
               /\ UNCHANGED <<ticket, issues>>
            \/ /\ Matches(key[c]) = {}
               /\ Len(issues) < MaxIssues
               /\ issues' = Append(issues, NewIssue(c))
               /\ ticket' = [ticket EXCEPT ![c] = Len(issues) + 1]
               /\ IF watchers[c] = <<>>
                  THEN Finish(c, "True", log)
                  ELSE call' = [call EXCEPT ![c].pc = "add_watcher",
                                            ![c].reqs = log, ![c].w = 1]
    /\ UNCHANGED <<config, ncalls>>

\* Variant of CreateIssue: an impact without an entry in the mapping gets no
\* priority ('self.pri_mapping.get(self.impact)') and the issue is created.
CreateIssueDefaultPriority(c) ==
    /\ call[c].pc = "create_issue"
    /\ LET log == Append(call[c].reqs, "create_issue") IN
       \/ /\ Finish(c, "JIRAError", log)
          /\ UNCHANGED <<ticket, issues>>
       \/ /\ Len(issues) < MaxIssues
          /\ issues' = Append(issues,
                 IF event[c].impact \in DOMAIN pri_mapping[c]
                 THEN NewIssue(c)
                 ELSE [labels |-> {key[c]}, status |-> "OPEN",
                       priority |-> "None", watchers |-> <<>>])
          /\ ticket' = [ticket EXCEPT ![c] = Len(issues) + 1]
          /\ IF watchers[c] = <<>>
             THEN Finish(c, "True", log)
             ELSE call' = [call EXCEPT ![c].pc = "add_watcher",
                                       ![c].reqs = log, ![c].w = 1]
    /\ UNCHANGED <<config, ncalls>>

\* Variant of CreateIssue: the new issue is not kept in self.ticket.
CreateIssueUnbound(c) ==
    /\ call[c].pc = "create_issue"
    /\ IF event[c].impact \notin DOMAIN pri_mapping[c]
       THEN /\ Finish(c, "KeyError", call[c].reqs)
            /\ UNCHANGED issues
       ELSE LET log == Append(call[c].reqs, "create_issue") IN
            \/ /\ Finish(c, "JIRAError", log)
               /\ UNCHANGED issues
            \/ /\ Len(issues) < MaxIssues
               /\ issues' = Append(issues, NewIssue(c))
               /\ IF watchers[c] = <<>>
                  THEN Finish(c, "True", log)
                  ELSE call' = [call EXCEPT ![c].pc = "add_watcher",
                                            ![c].reqs = log, ![c].w = 1]
    /\ UNCHANGED <<config, ncalls, ticket>>

\* create(): the options dictionary and jira.create_issue.
CreateIssue(c) ==
    /\ call[c].pc = "create_issue"
    /\ IF event[c].impact \notin DOMAIN pri_mapping[c]
       THEN /\ Finish(c, "KeyError", call[c].reqs)
            /\ UNCHANGED <<ticket, issues>>
       ELSE LET log == Append(call[c].reqs, "create_issue") IN
            \/ /\ Finish(c, "JIRAError", log)
               /\ UNCHANGED <<ticket, issues>>
            \/ /\ Len(issues) < MaxIssues
               /\ issues' = Append(issues, NewIssue(c))
               /\ ticket' = [ticket EXCEPT ![c] = Len(issues) + 1]
               /\ IF watchers[c] = <<>>
                  THEN Finish(c, "True", log)
                  ELSE call' = [call EXCEPT ![c].pc = "add_watcher",
                                            ![c].reqs = log, ![c].w = 1]
    /\ UNCHANGED <<config, ncalls>>

\* Variant of AddWatcher: the watchers are attached from the last to the
\* first.
AddWatcherReversed(c) ==
    /\ call[c].pc = "add_watcher"
    /\ LET log == Append(call[c].reqs, "add_watcher") IN
       \/ /\ Finish(c, "JIRAError", log)
          /\ UNCHANGED issues
       \/ /\ IsIssue(ticket[c])
          /\ issues' = [issues EXCEPT ![ticket[c]].watchers =
                Append(@, watchers[c][Len(watchers[c]) + 1 - call[c].w])]
          /\ IF call[c].w = Len(watchers[c])
             THEN Finish(c, "True", log)
             ELSE call' = [call EXCEPT ![c].reqs = log, ![c].w = @ + 1]
    /\ UNCHANGED <<config, ncalls, ticket>>

\* Variant of AddWatcher: a failed attachment is ignored and the loop goes
\* on with the next watcher.
AddWatcherIgnoreFailure(c) ==
    /\ call[c].pc = "add_watcher"
    /\ LET log == Append(call[c].reqs, "add_watcher") IN
       /\ \/ UNCHANGED issues
          \/ /\ IsIssue(ticket[c])
             /\ issues' = [issues EXCEPT ![ticket[c]].watchers =
                              Append(@, watchers[c][call[c].w])]
       /\ IF call[c].w = Len(watchers[c])
          THEN Finish(c, "True", log)
          ELSE call' = [call EXCEPT ![c].reqs = log, ![c].w = @ + 1]
    /\ UNCHANGED <<config, ncalls, ticket>>

\* Variant of AddWatcher: a failed attachment deletes the issue just created.
AddWatcherRollback(c) ==
    /\ call[c].pc = "add_watcher"
    /\ LET log == Append(call[c].reqs, "add_watcher") IN
       \/ /\ Finish(c, "JIRAError", log)
          /\ ticket[c] = Len(issues)
          /\ issues' = SubSeq(issues, 1, Len(issues) - 1)
          /\ ticket' = [ticket EXCEPT ![c] = NoTicket]
       \/ /\ IsIssue(ticket[c])
          /\ issues' = [issues EXCEPT ![ticket[c]].watchers =
                           Append(@, watchers[c][call[c].w])]
          /\ IF call[c].w = Len(watchers[c])
             THEN Finish(c, "True", log)
             ELSE call' = [call EXCEPT ![c].reqs = log, ![c].w = @ + 1]
          /\ UNCHANGED ticket
    /\ UNCHANGED <<config, ncalls>>

\* create(): one iteration of '[self._add_watcher(new_issue, w) for w in
\* self.watchers]'.
AddWatcher(c) ==
    /\ call[c].pc = "add_watcher"
    /\ LET log == Append(call[c].reqs, "add_watcher") IN
       \/ /\ Finish(c, "JIRAError", log)
          /\ UNCHANGED issues
       \/ /\ IsIssue(ticket[c])
          /\ issues' = [issues EXCEPT ![ticket[c]].watchers =
                           Append(@, watchers[c][call[c].w])]
          /\ IF call[c].w = Len(watchers[c])
             THEN Finish(c, "True", log)
             ELSE call' = [call EXCEPT ![c].reqs = log, ![c].w = @ + 1]
    /\ UNCHANGED <<config, ncalls, ticket>>

\* close(): jira.transitions(tkt) and the search for finished_transition.
ListTransitions(c) ==
    /\ call[c].pc = "transitions"
    /\ LET log == Append(call[c].reqs, "transitions") IN
       \/ Finish(c, "JIRAError", log)
       \/ /\ IsIssue(ticket[c])
          /\ LET transition_ids == TransitionIds(c, Transitions(ticket[c])) IN
             IF transition_ids = <<>>
             THEN Finish(c, "ValueError", log)
             ELSE call' = [call EXCEPT ![c].pc = "transition_issue",
                                       ![c].reqs = log,
                                       ![c].t = transition_ids[1]]
    /\ UNCHANGED <<config, ncalls, ticket, issues>>

\* close(): jira.transition_issue(tkt, t), after which close() falls off
\* its end.
TransitionIssue(c) ==
    /\ call[c].pc = "transition_issue"
    /\ LET log == Append(call[c].reqs, "transition_issue")
           trs == IF IsIssue(ticket[c]) THEN Transitions(ticket[c]) ELSE <<>>
       IN
       \/ /\ Finish(c, "JIRAError", log)
          /\ UNCHANGED issues
       \/ \E n \in 1..Len(trs) :
          /\ trs[n].id = call[c].t
          /\ \A m \in 1..(n - 1) : trs[m].id # call[c].t
          /\ issues' = [issues EXCEPT ![ticket[c]].status = trs[n].to]
          /\ Finish(c, "None", log)
    /\ UNCHANGED <<config, ncalls, ticket>>

\* The call's outcome is handed to the caller.
Return(c) ==
    /\ call[c].pc = "done"
    /\ call' = [call EXCEPT ![c] = Idle]
    /\ UNCHANGED <<config, ncalls, ticket, issues>>

Ops == {"exists", "create", "close"}

\* No other controller has a call in progress.
Alone(c) == \A d \in Ctl \ {c} : call[d].pc = "idle"

\* Calls run one after another: a call starts only while every other
\* controller is between calls, and then runs to its end.
Next ==
    \/ \E c \in Ctl, o \in Ops : Alone(c) /\ Call(c, o) /\ UNCHANGED ncalls
    \/ \E c \in Ctl : Exists(c)
    \/ \E c \in Ctl : CreateIssue(c)
    \/ \E c \in Ctl : AddWatcher(c)
    \/ \E c \in Ctl : ListTransitions(c)
    \/ \E c \in Ctl : TransitionIssue(c)
    \/ \E c \in Ctl : Return(c)

Spec == Init /\ [][Next]_vars

\* A JIRA user removes a label from an issue (exists() docstring: labels
\* are edited by hand), so that searches for it no longer find the issue.
UserRemovesLabel(i) ==
    /\ \E k \in issues[i].labels :
          issues' = [issues EXCEPT ![i].labels = @ \ {k}]
    /\ UNCHANGED <<config, ncalls, ticket, call>>

\* The controllers are built from events with one key.  Where no close() is
\* called the workflow is never read: one is enough.
InitOneKey ==
    /\ Init
    /\ \A c, d \in Ctl : key[c] = key[d]
    /\ workflow.CLOSED = <<>>

\* Callers of exists() and create(), one call after another, against a
\* backend whose labels a user edits.

NextEnv ==
    \/ \E c \in Ctl, o \in {"exists", "create"} :
          Alone(c) /\ Call(c, o) /\ UNCHANGED ncalls
    \/ \E c \in Ctl : Exists(c)
    \/ \E c \in Ctl : CreateIssue(c)
    \/ \E c \in Ctl : AddWatcher(c)
    \/ \E c \in Ctl : Return(c)
    \/ \E i \in 1..Len(issues) : UserRemovesLabel(i)

SpecEnv == InitOneKey /\ [][NextEnv]_vars

\* Concurrent callers of exists() and create(): their calls interleave at
\* the backend requests.

NextConc ==
    \/ \E c \in Ctl, o \in {"exists", "create"} :
          /\ ncalls < MaxCalls
          /\ Call(c, o)
          /\ ncalls' = ncalls + 1
    \/ \E c \in Ctl : Exists(c)
    \/ \E c \in Ctl : CreateIssue(c)
    \/ \E c \in Ctl : AddWatcher(c)
    \/ \E c \in Ctl : Return(c)

SpecConc == InitOneKey /\ [][NextConc]_vars

\* A JIRA user adds the key of controller c as a label to an issue that does
\* not carry it (exists() docstring: 'people have manually added the same
\* label to other things'), so that a search returns several issues.
UserAddsLabel(i, c) ==
    /\ key[c] \notin issues[i].labels
    /\ issues' = [issues EXCEPT ![i].labels = @ \cup {key[c]}]
    /\ UNCHANGED <<config, ncalls, ticket, call>>

\* The controllers are built with the default arguments from events with
\* recognised impacts, against a workflow with two transitions named 'Done'.
InitLabel ==
    /\ Init
    /\ \A c \in Ctl : event[c].impact \in impact_types
    /\ \A c \in Ctl : watchers[c] = <<>>
    /\ \A c \in Ctl : pri_mapping[c] = DefaultPriMapping
    /\ Len(workflow.OPEN) = 2 /\ workflow.OPEN[1].name = "Done"

\* Calls one after another against a backend to whose issues a user adds
\* labels.  No watcher is configured, so create() attaches none.

NextLabel ==
    \/ \E c \in Ctl, o \in Ops : Alone(c) /\ Call(c, o) /\ UNCHANGED ncalls
    \/ \E c \in Ctl : Exists(c)
    \/ \E c \in Ctl : CreateIssue(c)
    \/ \E c \in Ctl : ListTransitions(c)
    \/ \E c \in Ctl : TransitionIssue(c)
    \/ \E c \in Ctl : Return(c)
    \/ \E i \in 1..Len(issues), c \in Ctl : UserAddsLabel(i, c)

SpecLabel == InitLabel /\ [][NextLabel]_vars

\* ------------------------------------------------------------------ claims
\* The number of requests r in the log of a call.
Count(log, r) == Cardinality({ n \in 1..Len(log) : log[n] = r })

\* The call o of controller c has ended and its outcome is not yet returned.
Done(c, o) == call[c].pc = "done" /\ call[c].op = o

\* The call of controller c ended with an exception: JIRAError is a failed
\* backend request (BackendQueryError for a search), KeyError the
\* UnmappedImpactError and ValueError the TransitionNotFoundError outcome.
Raised(c) == call[c].ret \in {"JIRAError", "KeyError", "ValueError"}

\* An issue labelled with the key of c was in the backend when the call of c
\* started.
HadTicket(c) == Labelled(call[c].before, key[c]) # {}

\* The call of c added an issue to the backend.
Created(c) == Len(issues) = Len(call[c].before) + 1

\* C1: with calls run one after another against a backend that keeps its
\* issues and whose search finds every issue labelled with the key, the
\* backend never holds more than one issue labelled with a controller's key,
\* however many create() calls one or several controllers with that key make.
C1_Dedup == \A c \in Ctl : Cardinality(Matches(key[c])) <= 1

\* C1 witness: two controllers built from different events with one key; the
\* create() of one has found the issue the other is bound to and returned
\* False.
C1_Witness ==
    \E c, d \in Ctl :
        /\ event[c] # event[d] /\ key[c] = key[d]
        /\ Done(d, "create") /\ call[d].ret = "False"
        /\ ticket[c] # NoTicket /\ ticket[d] = ticket[c]
        /\ Matches(key[c]) = {ticket[c]}

\* C2: a create() that returns has returned True, after exactly one
\* create_issue request that added one issue, when no issue with the key
\* existed; when an issue with the key existed, OPEN or CLOSED, create()
\* returns False (or raises the error of a failed search), issues no
\* create_issue and no add_watcher request and leaves the backend as it was.
C2_CreateOutcome ==
    \A c \in Ctl : Done(c, "create") =>
        /\ HadTicket(c) =>
              /\ call[c].ret \in {"False", "JIRAError"}
              /\ Count(call[c].reqs, "create_issue") = 0
              /\ Count(call[c].reqs, "add_watcher") = 0
              /\ issues = call[c].before
        /\ (~HadTicket(c) /\ ~Raised(c)) =>
              /\ call[c].ret = "True"
              /\ Count(call[c].reqs, "create_issue") = 1
              /\ Created(c)

\* C2 witness: create() has returned False on a key whose issue, created by
\* an earlier create(), has been closed since.
C2_Witness ==
    \E c \in Ctl :
        /\ Done(c, "create") /\ call[c].ret = "False"
        /\ \E i \in Labelled(call[c].before, key[c]) :
               call[c].before[i].status = "CLOSED"

\* C3 as claimed: when the search reports no match, exists() returns False
\* and the handle is unset after the call.
C3_Original ==
    \A c \in Ctl :
        (Done(c, "exists") /\ ~Raised(c) /\ call[c].existing = <<>>) =>
            (call[c].ret = "False" /\ ticket[c] = NoTicket)

\* The exists() of controller c gets an empty search result in this step.
ExistsFindsNone(c) ==
    /\ call[c].pc = "exists" /\ call'[c].pc # "exists"
    /\ call'[c].ret # "JIRAError"
    /\ call'[c].existing = <<>>

\* C3 amended: when the search reports no match, exists() returns False and
\* leaves the handle as it was before the call: unset if it was unset, still
\* bound to the earlier issue otherwise.
C3_HandleKept ==
    [][\A c \in Ctl : ExistsFindsNone(c) =>
          /\ ticket'[c] = ticket[c]
          /\ call[c].op = "exists" => call'[c].ret = "False"]_vars

\* C3 witness: exists() has returned False while the handle is still bound
\* to the issue whose label a user removed.
C3_Witness ==
    \E c \in Ctl :
        /\ Done(c, "exists") /\ call[c].ret = "False"
        /\ call[c].existing = <<>>
        /\ ticket[c] # NoTicket

\* C4: close() called when no issue with the key exists returns False (or
\* raises the error of a failed search), issues neither a transitions nor a
\* transition_issue request and leaves the backend as it was.
C4_CloseAbsent ==
    \A c \in Ctl : (Done(c, "close") /\ ~HadTicket(c)) =>
        /\ call[c].ret \in {"False", "JIRAError"}
        /\ Count(call[c].reqs, "transitions") = 0
        /\ Count(call[c].reqs, "transition_issue") = 0
        /\ issues = call[c].before

\* C4 witness: close() has returned False for a key without an issue, in a
\* backend that holds an issue of another key.
C4_Witness ==
    \E c \in Ctl :
        /\ Done(c, "close") /\ call[c].ret = "False"
        /\ ticket[c] = NoTicket
        /\ issues # <<>>

\* No transition the backend offers for issue i of backend state iss is
\* named n.
NoTransitionNamed(iss, i, n) ==
    \A m \in 1..Len(workflow[iss[i].status]) :
        workflow[iss[i].status][m].name # n

\* C5: close() on an existing issue none of whose transitions is named
\* finished_transition ends by raising ValueError (no backend request having
\* failed), applies no transition and leaves the backend as it was.
C5_TransitionNotFound ==
    \A c \in Ctl :
        (/\ Done(c, "close") /\ HadTicket(c)
         /\ call[c].ret # "JIRAError"
         /\ call[c].existing # <<>>
         /\ NoTransitionNamed(call[c].before, call[c].existing[1],
                              finished_transition[c])) =>
            /\ call[c].ret = "ValueError"
            /\ Count(call[c].reqs, "transition_issue") = 0
            /\ issues = call[c].before

\* C5 witness: close() has raised ValueError on an issue that is still open.
C5_Witness ==
    \E c \in Ctl :
        /\ Done(c, "close") /\ call[c].ret = "ValueError"
        /\ IsIssue(ticket[c]) /\ issues[ticket[c]].status = "OPEN"

\* C6 as claimed: a close() that does not raise returns a boolean, True
\* exactly when the finished transition was applied.
C6_CloseReturnsBool ==
    \A c \in Ctl : (Done(c, "close") /\ ~Raised(c)) =>
        /\ call[c].ret \in {"True", "False"}
        /\ call[c].ret = "True" <=>
               Count(call[c].reqs, "transition_issue") = 1

\* C7: nothing but its own search decides what a create() does: a create()
\* whose search found no issue, and which did not raise, has created an
\* issue and returned True, whatever other controllers did to the backend in
\* between.
C7_NoMutualExclusion ==
    \A c \in Ctl :
        (Done(c, "create") /\ ~Raised(c) /\ call[c].existing = <<>>) =>
            /\ call[c].ret = "True"
            /\ Count(call[c].reqs, "create_issue") = 1
            /\ ticket[c] \in Matches(key[c])

\* C7 witness: two controllers with one key have both found no issue, both
\* created one and both returned True: two issues carry the key.
C7_Witness ==
    \E c, d \in Ctl :
        /\ c # d /\ key[c] = key[d]
        /\ Done(c, "create") /\ call[c].ret = "True"
        /\ Done(d, "create") /\ call[d].ret = "True"
        /\ call[c].existing = <<>> /\ call[d].existing = <<>>
        /\ ticket[c] # ticket[d]
        /\ Matches(key[c]) = {ticket[c], ticket[d]}

\* C8: every issue in the backend carries the key from the request that
\* created it on: at every point of every interleaving each issue, and so
\* each issue a controller is bound to, is in every result of a search for
\* its creator's key.
C8_LabelledAtCreation ==
    /\ \A i \in 1..Len(issues) : \E c \in Ctl : issues[i].labels = {key[c]}
    /\ \A c \in Ctl : ticket[c] # NoTicket =>
          /\ ticket[c] \in Matches(key[c])
          /\ \A res \in SearchIssues(key[c]) :
                \E n \in 1..Len(res) : res[n] = ticket[c]

\* C8 witness: while the create() of one controller is still attaching
\* watchers, the exists() of another has found the new issue.
C8_Witness ==
    \E c, d \in Ctl :
        /\ c # d
        /\ call[c].pc = "add_watcher"
        /\ Done(d, "exists") /\ call[d].ret = "True"
        /\ ticket[d] = ticket[c]

\* C9 as claimed: a create() that has created its issue returns True and
\* has attempted every configured watcher.
C9_Original ==
    \A c \in Ctl : (Done(c, "create") /\ Created(c)) =>
        /\ call[c].ret = "True"
        /\ Count(call[c].reqs, "add_watcher") = Len(watchers[c])

\* C9 amended: a failure to attach a watcher ends create(): the call raises
\* the backend's error instead of returning True and the watchers after the
\* failing one are not attempted; the handle stays bound to the new issue.
\* create() returns True only with every watcher attached.
C9_WatcherFailureFatal ==
    \A c \in Ctl : (Done(c, "create") /\ Created(c)) =>
        /\ ticket[c] = Len(issues)
        /\ LET attached == issues[ticket[c]].watchers
               n == Count(call[c].reqs, "add_watcher")
           IN  \/ /\ call[c].ret = "True"
                  /\ attached = watchers[c]
                  /\ n = Len(watchers[c])
               \/ /\ call[c].ret = "JIRAError"
                  /\ n = Len(attached) + 1
                  /\ n <= Len(watchers[c])
                  /\ attached = SubSeq(watchers[c], 1, n - 1)

\* C9 witness: the second watcher failed after the first was attached, and
\* create() has raised.
C9_Witness ==
    \E c \in Ctl :
        /\ Done(c, "create") /\ Created(c)
        /\ call[c].ret = "JIRAError"
        /\ Count(call[c].reqs, "add_watcher") = 2
        /\ issues[ticket[c]].watchers = <<watchers[c][1]>>

\* C10: no step of exists(), create() or close() removes an issue from the
\* backend or takes its label or priority away: an issue once created stays,
\* also when a later step of the same create() fails.
C10_NoRollback ==
    [][/\ Len(issues') >= Len(issues)
       /\ \A i \in 1..Len(issues) :
             /\ issues'[i].labels = issues[i].labels
             /\ issues'[i].priority = issues[i].priority]_vars

\* C10 witness: the first watcher failed, create() has raised, and the issue
\* it created is in the backend under its key.
C10_Witness ==
    \E c \in Ctl :
        /\ Done(c, "create") /\ Created(c)
        /\ call[c].ret = "JIRAError"
        /\ Count(call[c].reqs, "add_watcher") = 1
        /\ ticket[c] \in Matches(key[c])

\* The impact of the event of c has an entry in the priority mapping of c.
Mapped(c) == event[c].impact \in DOMAIN pri_mapping[c]

\* C11: a create() for an event whose impact is no key of the priority
\* mapping, when no issue with the key exists, ends by raising KeyError (the
\* UnmappedImpactError outcome) with the search as its only request: no
\* create_issue and no add_watcher request is issued, and neither the search
\* nor the failing lookup changes the backend or the handle.
C11_UnmappedImpact ==
    [][\A c \in Ctl :
          /\ (/\ call[c].op = "create" /\ call[c].pc = "exists"
              /\ call'[c].pc = "create_issue") =>
                 (ticket'[c] = ticket[c] /\ issues' = issues)
          /\ (/\ call[c].pc = "create_issue" /\ call'[c] # call[c]
              /\ ~Mapped(c)) =>
                 /\ call'[c].pc = "done"
                 /\ call'[c].ret = "KeyError"
                 /\ call'[c].reqs = <<"search_issues">>
                 /\ ticket'[c] = ticket[c]
                 /\ issues' = issues
                 /\ issues = call[c].before]_vars

\* C11 witness: create() has raised KeyError for an unmapped impact; its
\* handle is unset and the backend is as it was when the call started.
C11_Witness ==
    \E c \in Ctl :
        /\ Done(c, "create") /\ call[c].ret = "KeyError"
        /\ ~Mapped(c)
        /\ ticket[c] = NoTicket
        /\ issues = call[c].before

\* The search of controller c fails in this step: issues carry the key, and
\* the call gets no result.
SearchFails(c) ==
    /\ call[c].pc = "exists" /\ call'[c] # call[c]
    /\ Matches(key[c]) # {}
    /\ call'[c].existing = <<>>

\* C12: a failed search ends exists(), and the create() or close() that
\* called it, by raising the backend's error (JIRAError, the
\* BackendQueryError outcome), never by returning False: the search is the
\* only request of the call (it is not retried, and no create_issue,
\* add_watcher, transitions or transition_issue follows), and the backend
\* and the handle are left as they were.
C12_QueryErrorPropagates ==
    [][\A c \in Ctl :
          /\ Count(call'[c].reqs, "search_issues") <= 1
          /\ SearchFails(c) =>
                /\ call'[c].pc = "done"
                /\ call'[c].ret = "JIRAError"
                /\ call'[c].reqs = <<"search_issues">>
                /\ issues' = issues
                /\ ticket'[c] = ticket[c]]_vars

\* C12 witness: close() has raised the error of its failed search although
\* an open issue carries the key.
C12_Witness ==
    \E c \in Ctl :
        /\ Done(c, "close") /\ call[c].ret = "JIRAError"
        /\ call[c].reqs = <<"search_issues">>
        /\ \E i \in Matches(key[c]) : issues[i].status = "OPEN"

\* The fields of an event that make its key.
Triple(e) == <<e.provider, e.account, e.maintenance_id>>

\* C13: the key of a controller is the colon-joined provider, account and
\* maintenance id of its event in every state (set at construction, changed
\* by no exists(), create() or close()), so controllers whose events share
\* that triple have the same key whatever the object id, the impact and the
\* time window of their events.
C13_KeyOfTriple ==
    /\ \A c \in Ctl :
          key[c] = event[c].provider \o ":" \o event[c].account
                       \o ":" \o event[c].maintenance_id
    /\ \A c, d \in Ctl :
          Triple(event[c]) = Triple(event[d]) => key[c] = key[d]

\* C13 witness: two controllers whose events share the triple and differ in
\* object id, impact and time window hold the same key after create() and
\* close() have run.
C13_Witness ==
    \E c, d \in Ctl :
        /\ Triple(event[c]) = Triple(event[d])
        /\ event[c].object_id # event[d].object_id
        /\ event[c].impact # event[d].impact
        /\ event[c].dtstart # event[d].dtstart
        /\ key[c] = "example.com:137.035999173:WorkOrder-31415"
        /\ key[d] = key[c]
        /\ ticket[c] # NoTicket
        /\ Done(d, "close") /\ call[d].ret = "None"

\* C14 as claimed: the impact create() looks up in the priority mapping is
\* one of the four known impact types.
C14_ImpactValidated ==
    \A c \in Ctl :
        call[c].pc = "create_issue" => event[c].impact \in impact_types

\* Issue i of backend state iss was created from the event of controller c:
\* it carries the key and the priority of that event.
CreatedFor(iss, i, c) ==
    /\ i \in Labelled(iss, key[c])
    /\ Mapped(c)
    /\ iss[i].priority = pri_mapping[c][event[c].impact]

\* C15: the key is not injective: two events with different (provider,
\* account, maintenance id) triples, a ':' inside the provider or the
\* account, have one key; and a create() for one of them that finds the
\* issue created for the other returns False (or raises the error of a
\* failed search) and creates nothing, so that the one issue is all the
\* backend holds for the two maintenances.
C15_KeyCollision ==
    /\ \E e, f \in Events : Triple(e) # Triple(f) /\ Key(e) = Key(f)
    /\ \A c, d \in Ctl :
          (/\ Triple(event[c]) # Triple(event[d]) /\ key[c] = key[d]
           /\ Done(d, "create")
           /\ \E i \in 1..Len(call[d].before) :
                 CreatedFor(call[d].before, i, c)) =>
              /\ call[d].ret \in {"False", "JIRAError"}
              /\ Count(call[d].reqs, "create_issue") = 0
              /\ issues = call[d].before
              /\ Cardinality(Matches(key[d])) = 1

\* C15 witness: the create() for the event of provider 'a', account 'b:c'
\* has returned False on the issue created for provider 'a:b', account 'c',
\* whose priority is not the one of its own impact.
C15_Witness ==
    \E c, d \in Ctl :
        /\ event[c].provider = "a:b" /\ event[d].provider = "a"
        /\ key[c] = key[d]
        /\ Done(d, "create") /\ call[d].ret = "False"
        /\ ticket[d] # NoTicket /\ ticket[c] = ticket[d]
        /\ CreatedFor(issues, ticket[d], c)
        /\ ~CreatedFor(issues, ticket[d], d)

\* C16: a search that returns one or more matches makes exists() return True
\* and binds the handle to the first element of the returned sequence,
\* whatever the handle was and whatever the order of the sequence; the
\* backend is left as it is.
C16_FirstMatchBound ==
    [][\A c \in Ctl :
          (/\ call[c].pc = "exists" /\ call'[c] # call[c]
           /\ call'[c].existing # <<>>) =>
             /\ ticket'[c] = call'[c].existing[1]
             /\ call'[c].existing \in SearchIssues(key[c])
             /\ call[c].op = "exists" =>
                   call'[c].pc = "done" /\ call'[c].ret = "True"
             /\ issues' = issues]_vars

\* C16 witness: exists() returned True on a search that returned issue 2
\* before issue 1, and the handle is issue 2.
C16_Witness ==
    \E c \in Ctl :
        /\ Done(c, "exists") /\ call[c].ret = "True"
        /\ call[c].existing = <<2, 1>>
        /\ ticket[c] = 2

\* The id of the first transition named n that the backend offers for
\* issue i.
FirstNamed(i, n) ==
    LET trs == workflow[issues[i].status]
        m   == CHOOSE m \in 1..Len(trs) :
                   /\ trs[m].name = n
                   /\ \A l \in 1..(m - 1) : trs[l].name # n
    IN  trs[m].id

\* C17: close() on an issue that offers a transition named finished_transition
\* works on the first issue its own search returned; unless a request fails
\* it picks the first transition of that name in the backend's list and
\* applies it in one transition_issue request, after which an issue that
\* was OPEN is CLOSED; the status of every other issue is as it was.
C17_CloseApplies ==
    [][\A c \in Ctl :
          /\ (/\ call[c].pc = "transitions" /\ call'[c] # call[c]
              /\ ~NoTransitionNamed(issues, ticket[c],
                                    finished_transition[c])) =>
                /\ ticket[c] = call[c].existing[1]
                /\ issues' = issues
                /\ \/ call'[c].pc = "done" /\ call'[c].ret = "JIRAError"
                   \/ /\ call'[c].pc = "transition_issue"
                      /\ call'[c].t =
                            FirstNamed(ticket[c], finished_transition[c])
          /\ (call[c].pc = "transition_issue" /\ call'[c] # call[c]) =>
                /\ ticket[c] = call[c].existing[1]
                /\ ticket'[c] = ticket[c]
                /\ call'[c].pc = "done"
                /\ Len(issues') = Len(issues)
                /\ \A j \in 1..Len(issues) :
                      j # ticket[c] => issues'[j] = issues[j]
                /\ \/ call'[c].ret = "JIRAError" /\ issues' = issues
                   \/ /\ call'[c].ret = "None"
                      /\ call'[c].reqs = <<"search_issues", "transitions",
                                           "transition_issue">>
                      /\ issues[ticket[c]].status = "OPEN" =>
                            issues'[ticket[c]].status = "CLOSED"]_vars

\* C17 witness: close() has ended on a search that returned two issues: the
\* first, OPEN when close() was called, is CLOSED by transition 2, the first
\* of the two named 'Done'; the second is still OPEN.
C17_Witness ==
    \E c \in Ctl :
        /\ Done(c, "close") /\ call[c].ret = "None"
        /\ Len(call[c].existing) = 2
        /\ ticket[c] = call[c].existing[1]
        /\ call[c].t = 2
        /\ call[c].before[call[c].existing[1]].status = "OPEN"
        /\ issues[call[c].existing[1]].status = "CLOSED"
        /\ issues[call[c].existing[2]].status = "OPEN"

\* The priority the default configuration gives to an impact.
DefaultPriority(impact) ==
    CASE impact = "NO-IMPACT"          -> "Low"
      [] impact = "REDUCED-REDUNDANCY" -> "Medium"
      [] impact = "DEGRADED"           -> "High"
      [] impact = "OUTAGE"             -> "Highest"

\* C18: the issue a create_issue request of create() adds has the priority
\* the controller's mapping gives to the event's impact, which with no
\* pri_mapping argument is Low, Medium, High or Highest for NO-IMPACT,
\* REDUCED-REDUNDANCY, DEGRADED and OUTAGE; the NO-IMPACT event of
\* example.com, 137.035999173, WorkOrder-31415 gets an issue labelled
\* 'example.com:137.035999173:WorkOrder-31415' with priority 'Low'.
C18_PriorityMapped ==
    [][\A c \in Ctl :
          (call[c].pc = "create_issue" /\ Len(issues') = Len(issues) + 1) =>
             LET new == issues'[Len(issues')] IN
             /\ event[c].impact \in DOMAIN pri_mapping[c]
             /\ new.priority = pri_mapping[c][event[c].impact]
             /\ \/ pri_mapping[c] \in PriMappingArgs \ {<< >>}
                \/ new.priority = DefaultPriority(event[c].impact)
             /\ (/\ pri_mapping[c] \notin PriMappingArgs
                 /\ event[c].provider = "example.com"
                 /\ event[c].account = "137.035999173"
                 /\ event[c].maintenance_id = "WorkOrder-31415"
                 /\ event[c].impact = "NO-IMPACT") =>
                    /\ new.labels =
                          {"example.com:137.035999173:WorkOrder-31415"}
                    /\ new.priority = "Low"]_vars

\* C18 witness: create() has returned True for the NO-IMPACT event of the
\* scenario under the default mapping; the issue it created carries the
\* label and the priority 'Low'.
C18_Witness ==
    \E c \in Ctl :
        /\ Done(c, "create") /\ call[c].ret = "True"
        /\ event[c].impact = "NO-IMPACT"
        /\ pri_mapping[c] \notin PriMappingArgs
        /\ ticket[c] = Len(call[c].before) + 1
        /\ issues[ticket[c]].labels =
              {"example.com:137.035999173:WorkOrder-31415"}
        /\ issues[ticket[c]].priority = "Low"

\* C19 as claimed: the handle of a controller for whose key no issue existed
\* is unset until a create() returns True; a create() that ends otherwise
\* leaves it unset.
C19_Original ==
    \A c \in Ctl :
        (Done(c, "create") /\ ~HadTicket(c) /\ call[c].ret # "True") =>
            ticket[c] = NoTicket

\* C19 amended: the handle is unset at construction and is only ever bound
\* by a search of exists() that returns a match, to the first issue
\* returned, or by a create_issue request of create() that succeeds, to the
\* issue it created, whether or not create() goes on to return True; the
\* issue carries the controller's key when it is bound.  When create()
\* returns True the handle is the issue that call created.
C19_HandleBinding ==
    /\ \A c \in Ctl : ticket[c] = NoTicket
    /\ [][\A c \in Ctl :
             /\ ticket'[c] # ticket[c] =>
                   \/ /\ call[c].pc = "exists"
                      /\ call'[c].existing # <<>>
                      /\ ticket'[c] = call'[c].existing[1]
                   \/ /\ call[c].pc = "create_issue"
                      /\ Len(issues') = Len(issues) + 1
             /\ (call[c].pc = "create_issue"
                   /\ Len(issues') = Len(issues) + 1) =>
                      ticket'[c] = Len(issues')
             /\ ticket'[c] # NoTicket => ticket'[c] \in Labelled(issues', key[c])
             /\ (/\ call[c].pc # "done" /\ call'[c].pc = "done"
                 /\ call'[c].op = "create" /\ call'[c].ret = "True") =>
                    /\ ticket'[c] = Len(call'[c].before) + 1
                    /\ Len(issues') = Len(call'[c].before) + 1]_vars

\* C19 witness: a create() for a key without an issue has raised on its
\* second add_watcher request and the handle is bound to the issue the call
\* created.
C19_Witness ==
    \E c \in Ctl :
        /\ Done(c, "create") /\ ~HadTicket(c)
        /\ call[c].ret = "JIRAError"
        /\ call[c].reqs = <<"search_issues", "create_issue",
                            "add_watcher", "add_watcher">>
        /\ ticket[c] = Len(call[c].before) + 1
        /\ ticket[c] \in Matches(key[c])

\* The call of controller c takes a step.
Steps(c) == call[c].pc \notin {"idle", "done"} /\ call'[c] # call[c]

\* The watchers of issue i change, or issue i is new and has watchers.
WatchersChange(i) ==
    IF i <= Len(issues)
    THEN issues'[i].watchers # issues[i].watchers
    ELSE issues'[i].watchers # <<>>

\* C20: a step of exists() issues a search request and leaves the backend as
\* it is; a step of close() issues no create_issue and no add_watcher
\* request, creates no issue and changes no issue's watchers; the watchers
\* of an issue change only in an add_watcher step of a create() call, after
\* its create_issue request, on the issue that call created, by the next
\* configured watcher in the order of the configuration; and a create() that
\* returns True has attached each configured watcher once.
C20_Frame ==
    [][/\ \A c \in Ctl :
             /\ (Steps(c) /\ call[c].op = "exists") =>
                   /\ call'[c].reqs = <<"search_issues">>
                   /\ issues' = issues
             /\ (Steps(c) /\ call[c].op = "close") =>
                   /\ Count(call'[c].reqs, "create_issue") = 0
                   /\ Count(call'[c].reqs, "add_watcher") = 0
                   /\ Len(issues') = Len(issues)
                   /\ \A i \in 1..Len(issues) :
                         issues'[i].watchers = issues[i].watchers
             /\ (/\ Steps(c) /\ call[c].op = "create"
                 /\ call'[c].pc = "done" /\ call'[c].ret = "True") =>
                   /\ issues'[ticket'[c]].watchers = watchers[c]
                   /\ call'[c].reqs =
                         <<"search_issues", "create_issue">> \o
                         [n \in 1..Len(watchers[c]) |-> "add_watcher"]
       /\ \A i \in 1..Len(issues') :
             WatchersChange(i) =>
                \E c \in Ctl :
                   /\ call[c].op = "create" /\ call[c].pc = "add_watcher"
                   /\ Count(call[c].reqs, "create_issue") = 1
                   /\ i = Len(call[c].before) + 1
                   /\ i = ticket[c]
                   /\ Len(issues') = Len(issues)
                   /\ \A j \in 1..Len(issues) :
                         j # i => issues'[j] = issues[j]
                   /\ LET n == Len(issues[i].watchers) + 1 IN
                      /\ n = call[c].w
                      /\ n <= Len(watchers[c])
                      /\ issues'[i].watchers =
                            Append(issues[i].watchers, watchers[c][n])]_vars

\* C20 witness: create() has returned True in a backend that held an issue
\* already: the new issue has the two configured watchers in their order,
\* after one create_issue and two add_watcher requests, and the other issue
\* is as it was.
C20_Witness ==
    \E c \in Ctl :
        /\ Done(c, "create") /\ call[c].ret = "True"
        /\ Len(call[c].before) = 1 /\ ticket[c] = 2
        /\ watchers[c] = <<"noc", "ops">>
        /\ issues[2].watchers = <<"noc", "ops">>
        /\ call[c].reqs = <<"search_issues", "create_issue",
                            "add_watcher", "add_watcher">>
        /\ issues[1] = call[c].before[1]

====
